---- MODULE Spec2Model ----
(***************************************************************************)
(* Metropolis Monte Carlo sampler for a periodic Lennard-Jones fluid       *)
(* (HW5-2-MCMC.ipynb): minimum-image geometry, all-pairs energy, the       *)
(* propose / evaluate / accept-or-reject loop, the virial pressure         *)
(* normalisation and the Widom insertion energy.                           *)
(*                                                                         *)
(* Units.  Lengths are counted in half reduced units, so that the lattice  *)
(* coordinates 1.5, 2.5, 3.5 and the box side 5 are the integers 3, 5, 7   *)
(* and 10.  Squared distances are therefore in quarter units: r*r = r2/4.  *)
(* Energies are counted in 1/10000 of a reduced energy unit; the powers    *)
(* r^-6 and r^-12 are truncated to that grid.  The uniform number q is     *)
(* counted in sixteenths.                                                  *)
(***************************************************************************)
EXTENDS Integers, Sequences, FiniteSets, TLC

(* Bounds of the model: the notebook runs 27 particles for 10000 steps.    *)
NP == 2
MSteps == 3

(* cell 7: L=5 (in half units), temperature=5 *)
L == 5 * 2
temperature == 5

VARIABLES x, y, z, up, i, jt, temp1, temp2, temp3, q, pc,
          gxi, gxj, gpx, gdx, gpc,
          psumFull, psumLast, p_ex, p_final, ppc,
          wi, wtemp, up_extra, wpc,
          cfgA, pk, pb, nAB, nBA, spc

samplerVars == <<x, y, z, up, i, jt, temp1, temp2, temp3, q, pc>>
geomVars == <<gxi, gxj, gpx, gdx, gpc>>
pressVars == <<psumFull, psumLast, p_ex, p_final, ppc>>
widomVars == <<wi, wtemp, up_extra, wpc>>
propVars == <<cfgA, pk, pb, nAB, nBA, spc>>
vars == <<samplerVars, geomVars, pressVars, widomVars, propVars>>

Particles == 0 .. NP - 1
Steps == 0 .. MSteps - 1

(* cell 3: the initial lattice, in half units *)
location ==
  << <<5,5,5>>, <<3,5,5>>, <<7,5,5>>, <<5,3,5>>, <<5,7,5>>, <<5,5,3>>,
     <<5,5,7>>, <<7,7,5>>, <<7,3,5>>, <<3,7,5>>, <<3,3,5>>, <<7,5,7>>,
     <<7,5,3>>, <<3,5,7>>, <<3,5,3>>, <<5,7,7>>, <<5,7,3>>, <<5,3,7>>,
     <<5,3,3>>, <<7,7,7>>, <<7,7,3>>, <<7,3,7>>, <<3,7,7>>, <<3,3,7>>,
     <<3,7,3>>, <<7,3,3>>, <<3,3,3>> >>

abs(v) == IF v < 0 THEN -v ELSE v

Min3(a, b, c) ==
  IF a <= b THEN (IF a <= c THEN a ELSE c) ELSE (IF b <= c THEN b ELSE c)

(* compare with a strict first comparison: a tie of |xi-xj| with          *)
(* |xi-xj+L| then goes to the shifted image                                *)
compareStrict(xi, xj) ==
  IF abs(xi - xj) < abs(xi - xj + L)
  THEN IF abs(xi - xj) <= abs(xi - xj - L)
       THEN [px |-> 0, dx |-> abs(xi - xj)]
       ELSE [px |-> 1, dx |-> abs(xi - xj - L)]
  ELSE IF abs(xi - xj + L) <= abs(xi - xj - L)
       THEN [px |-> -1, dx |-> abs(xi - xj + L)]
       ELSE [px |-> 1, dx |-> abs(xi - xj - L)]

(* compare returning the wrong shifted distance in its first else branch *)
compareSwapped(xi, xj) ==
  IF abs(xi - xj) <= abs(xi - xj + L)
  THEN IF abs(xi - xj) <= abs(xi - xj - L)
       THEN [px |-> 0, dx |-> abs(xi - xj)]
       ELSE [px |-> 1, dx |-> abs(xi - xj + L)]
  ELSE IF abs(xi - xj + L) <= abs(xi - xj - L)
       THEN [px |-> -1, dx |-> abs(xi - xj + L)]
       ELSE [px |-> 1, dx |-> abs(xi - xj - L)]

(* cell 5: nearest periodic image along one axis *)
compare(xi, xj) ==
  IF abs(xi - xj) <= abs(xi - xj + L)
  THEN IF abs(xi - xj) <= abs(xi - xj - L)
       THEN [px |-> 0, dx |-> abs(xi - xj)]
       ELSE [px |-> 1, dx |-> abs(xi - xj - L)]
  ELSE IF abs(xi - xj + L) <= abs(xi - xj - L)
       THEN [px |-> -1, dx |-> abs(xi - xj + L)]
       ELSE [px |-> 1, dx |-> abs(xi - xj - L)]

(* cell 6: r is kept as its square r2 = dx*dx+dy*dy+dz*dz (quarter units); *)
(* the square root is taken inside the powers below.                       *)
cal_r(xi, yi, zi, xj, yj, zj) ==
  LET cx == compare(xi, xj)
      cy == compare(yi, yj)
      cz == compare(zi, zj)
  IN [r2 |-> cx.dx * cx.dx + cy.dx * cy.dx + cz.dx * cz.dx,
      px |-> cx.px, py |-> cy.px, pz |-> cz.px]

(* math.pow(r,-6) = (4/r2)^3 = 64/r2^3, in 1/10000 units; r2 > 0 *)
PowM6(r2) == 640000 \div (r2 * r2 * r2)

(* math.pow(r,-12) = (64/r2^3)^2, in 1/10000 units; r2 > 0 *)
PowM12(r2) == (PowM6(r2) * 64) \div (r2 * r2 * r2)

(* cells 11 and 14: the summand 2*(math.pow(rjk,-12)-math.pow(rjk,-6)) *)
PairTerm(r2) == 2 * (PowM12(r2) - PowM6(r2))

(* cells 11 and 14: for j in range(n): for k in range(n): if j==k:         *)
(* continue; acc += PairTerm.  The pair (j,k) is number idx = j*n+k.       *)
(* math.pow(0.0,-12) raises ValueError: the loop stops there and acc keeps *)
(* the partial sum.                                                        *)
RECURSIVE AllPairs(_, _, _, _)
AllPairs(cfg, n, idx, acc) ==
  IF idx >= n * n THEN [ok |-> TRUE, val |-> acc]
  ELSE LET j == idx \div n
           k == idx % n
       IN IF j = k THEN AllPairs(cfg, n, idx + 1, acc)
          ELSE LET r == cal_r(cfg[j][1], cfg[j][2], cfg[j][3],
                              cfg[k][1], cfg[k][2], cfg[k][3])
               IN IF r.r2 = 0 THEN [ok |-> FALSE, val |-> acc]
                  ELSE AllPairs(cfg, n, idx + 1, acc + PairTerm(r.r2))

(* the configuration stored at step c of the trajectory buffers *)
Column(c) == [j \in Particles |-> <<x[j][c], y[j][c], z[j][c]>>]

(* the trial coordinate without the periodic wrap *)
WrapNoMod(v, t) == v + t

(* cell 14: (x[jt][i]+temp1)%L *)

Wrap(v, t) == (v + t) % L

(* lines 241-247: the copy of cfg with particle p moved and wrapped *)
TrialCfg(cfg, p, d) ==
  [cfg EXCEPT ![p] = <<Wrap(cfg[p][1], d[1]), Wrap(cfg[p][2], d[2]),
                       Wrap(cfg[p][3], d[3])>>]

(* a displacement range that misses its last grid value *)
DispRangeShort == (-L) .. (L - 2)

(* cell 14: temp = (random.random()-0.5)*L*2 lies in [-L, L) *)

DispRange == (-L) .. (L - 1)

(* the displacement vectors (temp1,temp2,temp3) the sampler model draws:   *)
(* no move, one lattice spacing either way, both ends of the range, and    *)
(* moves that leave the lattice and cross the box faces                    *)
DrawVecs ==
  { <<0, 0, 0>>, <<2, 0, 0>>, <<-2, -L, 0>>, <<L - 1, 0, 0>>,
    <<-3, 1, 0>>, <<1, 2, -L>>, <<L - 1, L - 1, L - 1>>, <<-L, 4, -4>> }

(* q = random.random() lies in [0, 1); the values drawn, in sixteenths *)
QDraws == {0, 1, 8, 15}

(* floor(10000*ln(16/k)) for k = 1 .. 15 *)
LnTab ==
  <<27725, 20794, 16739, 13862, 11631, 9808, 8266, 6931, 5753, 4700, 3746,
    2876, 2076, 1335, 645>>

(* cell 14: math.exp(-delta_E/temperature) in sixteenths, rounded down;    *)
(* delta_E > 0 is in 1/10000 units.  exp(-d/T) >= k/16 iff d <= T*ln(16/k) *)
ExpNeg(delta_E) ==
  LET reached == {k \in 1 .. 15 : delta_E <= temperature * LnTab[k]}
  IN IF reached = {} THEN 0
     ELSE CHOOSE k \in reached : \A m \in reached : m <= k

(* the reject test with >= in place of > *)
RejectGeq(qq, delta_E) == qq >= ExpNeg(delta_E)

(* cell 14: if(q>math.exp(-delta_E/temperature)) *)

Reject(qq, delta_E) == qq > ExpNeg(delta_E)

(* cells 2, 4, 10, 11: zeroed buffers, the lattice in column 0, up[0] *)
SamplerInit ==
  /\ x = [j \in Particles |-> [t \in Steps |-> IF t = 0 THEN location[j + 1][1] ELSE 0]]
  /\ y = [j \in Particles |-> [t \in Steps |-> IF t = 0 THEN location[j + 1][2] ELSE 0]]
  /\ z = [j \in Particles |-> [t \in Steps |-> IF t = 0 THEN location[j + 1][3] ELSE 0]]
  /\ up = [t \in Steps |->
             IF t = 0
             THEN AllPairs([j \in Particles |-> location[j + 1]], NP, 0, 0).val
             ELSE 0]
  /\ i = 0
  /\ jt = 0
  /\ temp1 = 0
  /\ temp2 = 0
  /\ temp3 = 0
  /\ q = 0
  /\ pc = IF MSteps > 1 THEN "draw" ELSE "done"

(* cell 14, lines 237-244: the draws and the copy-forward loop *)
CopyForward ==
  /\ pc = "draw"
  /\ \E d \in DrawVecs, p \in Particles :
       /\ temp1' = d[1]
       /\ temp2' = d[2]
       /\ temp3' = d[3]
       /\ jt' = p
  /\ x' = [j \in Particles |-> [x[j] EXCEPT ![i + 1] = x[j][i]]]
  /\ y' = [j \in Particles |-> [y[j] EXCEPT ![i + 1] = y[j][i]]]
  /\ z' = [j \in Particles |-> [z[j] EXCEPT ![i + 1] = z[j][i]]]
  /\ pc' = "trial"
  /\ UNCHANGED <<up, i, q>>

(* cell 14, lines 245-247: the trial position is written into column i+1 *)
TrialWrite ==
  /\ pc = "trial"
  /\ x' = [x EXCEPT ![jt][i + 1] = Wrap(x[jt][i], temp1)]
  /\ y' = [y EXCEPT ![jt][i + 1] = Wrap(y[jt][i], temp2)]
  /\ z' = [z EXCEPT ![jt][i + 1] = Wrap(z[jt][i], temp3)]
  /\ pc' = "energy"
  /\ UNCHANGED <<up, i, jt, temp1, temp2, temp3, q>>

(* cell 14, lines 249-254: up[i+1] += ... over all ordered pairs *)
Energy ==
  /\ pc = "energy"
  /\ LET e == AllPairs(Column(i + 1), NP, 0, up[i + 1])
     IN /\ up' = [up EXCEPT ![i + 1] = e.val]
        /\ pc' = IF e.ok THEN "decide" ELSE "failed"
  /\ UNCHANGED <<x, y, z, i, jt, temp1, temp2, temp3, q>>

(* end of one iteration of for i in range(MSteps-1) *)
NextPc == IF i + 1 < MSteps - 1 THEN "draw" ELSE "done"

(* Decide without line 262: a reject restores the position only *)
DecideKeepEnergy ==
  /\ pc = "decide"
  /\ IF up[i + 1] > up[i]
     THEN \E qq \in QDraws :
            /\ q' = qq
            /\ IF Reject(qq, up[i + 1] - up[i])
               THEN /\ x' = [x EXCEPT ![jt][i + 1] = x[jt][i]]
                    /\ y' = [y EXCEPT ![jt][i + 1] = y[jt][i]]
                    /\ z' = [z EXCEPT ![jt][i + 1] = z[jt][i]]
                    /\ up' = up
               ELSE UNCHANGED <<x, y, z, up>>
     ELSE UNCHANGED <<x, y, z, up, q>>
  /\ i' = i + 1
  /\ pc' = NextPc
  /\ UNCHANGED <<jt, temp1, temp2, temp3>>

(* Decide with the restore assignments reversed: a reject copies the trial *)
(* into the committed column i                                             *)
DecideRestoreInto ==
  /\ pc = "decide"
  /\ IF up[i + 1] > up[i]
     THEN \E qq \in QDraws :
            /\ q' = qq
            /\ IF Reject(qq, up[i + 1] - up[i])
               THEN /\ x' = [x EXCEPT ![jt][i] = x[jt][i + 1]]
                    /\ y' = [y EXCEPT ![jt][i] = y[jt][i + 1]]
                    /\ z' = [z EXCEPT ![jt][i] = z[jt][i + 1]]
                    /\ up' = [up EXCEPT ![i] = up[i + 1]]
               ELSE UNCHANGED <<x, y, z, up>>
     ELSE UNCHANGED <<x, y, z, up, q>>
  /\ i' = i + 1
  /\ pc' = NextPc
  /\ UNCHANGED <<jt, temp1, temp2, temp3>>

(* cell 14, lines 255-262: accept, or draw q and restore on reject *)
Decide ==
  /\ pc = "decide"
  /\ IF up[i + 1] > up[i]
     THEN \E qq \in QDraws :
            /\ q' = qq
            /\ IF Reject(qq, up[i + 1] - up[i])
               THEN /\ x' = [x EXCEPT ![jt][i + 1] = x[jt][i]]
                    /\ y' = [y EXCEPT ![jt][i + 1] = y[jt][i]]
                    /\ z' = [z EXCEPT ![jt][i + 1] = z[jt][i]]
                    /\ up' = [up EXCEPT ![i + 1] = up[i]]
               ELSE UNCHANGED <<x, y, z, up>>
     ELSE UNCHANGED <<x, y, z, up, q>>
  /\ i' = i + 1
  /\ pc' = NextPc
  /\ UNCHANGED <<jt, temp1, temp2, temp3>>

(***************************************************************************)
(* The sampler alone (cells 2-14).                                         *)
(***************************************************************************)
GeomIdle == gxi = 0 /\ gxj = 0 /\ gpx = 0 /\ gdx = 0 /\ gpc = "idle"

PressIdle ==
  /\ psumFull = 0
  /\ psumLast = 0
  /\ p_ex = <<0, 1>>
  /\ p_final = [ideal |-> <<0, 1>>, virial |-> <<0, 1>>]
  /\ ppc = "idle"

(* cell 26, line 439: up_extra=np.zeros(10000) *)
WidomIdle ==
  /\ wi = 0
  /\ wtemp = <<0, 0, 0>>
  /\ up_extra = [t \in Steps |-> 0]
  /\ wpc = "idle"

PropIdle ==
  /\ cfgA = [j \in Particles |-> location[j + 1]]
  /\ pk = 0
  /\ pb = <<0, 0, 0>>
  /\ nAB = 0
  /\ nBA = 0
  /\ spc = "idle"

Init == SamplerInit /\ GeomIdle /\ PressIdle /\ WidomIdle /\ PropIdle

Next ==
  \/ CopyForward /\ UNCHANGED <<geomVars, pressVars, widomVars, propVars>>
  \/ TrialWrite /\ UNCHANGED <<geomVars, pressVars, widomVars, propVars>>
  \/ Energy /\ UNCHANGED <<geomVars, pressVars, widomVars, propVars>>
  \/ Decide /\ UNCHANGED <<geomVars, pressVars, widomVars, propVars>>

Spec == Init /\ [][Next]_vars

(***************************************************************************)
(* compare as a pure function (cell 5): the two coordinates are inputs.    *)
(***************************************************************************)
(* the coordinates compare is called on are stored coordinates and Widom  *)
(* draws, all in [0, L)                                                    *)
GeoRange == 0 .. (L - 1)

GeomInit ==
  /\ SamplerInit /\ PressIdle /\ WidomIdle /\ PropIdle
  /\ gxi \in GeoRange
  /\ gxj \in GeoRange
  /\ gpx = 0
  /\ gdx = 0
  /\ gpc = "call"

(* px,dx=compare(xi,xj) *)
CallCompare ==
  /\ gpc = "call"
  /\ gpx' = compare(gxi, gxj).px
  /\ gdx' = compare(gxi, gxj).dx
  /\ gpc' = "returned"
  /\ UNCHANGED <<gxi, gxj>>

GeomNext == CallCompare /\ UNCHANGED <<samplerVars, pressVars, widomVars, propVars>>

SpecGeom == GeomInit /\ [][GeomNext]_vars

(***************************************************************************)
(* Pressure normalisation (cells 17 and 20).  The sums over the window of  *)
(* the per-step virial sums p[i] (cell 15) are inputs.  A quotient a/b is   *)
(* kept as the pair <<a, b>>.                                              *)
(***************************************************************************)
(* cells 17 and 20: V=L*L*L *)
V == L * L * L

(* cell 17: for i in range(10000) *)
FullWindow == 10000

(* cell 17: p_ex=p_ex/(30000*V) *)
FullDivisor == 30000

(* cell 20: for i in range(5000,10000) *)
LastStart == 5000

(* cell 20: p_ex=p_ex/(15000*V) *)
LastDivisor == 15000

SumRange == (-7) .. 7

PressInit ==
  /\ SamplerInit /\ GeomIdle /\ WidomIdle /\ PropIdle
  /\ psumFull \in SumRange
  /\ psumLast \in SumRange
  /\ p_ex = <<0, 1>>
  /\ p_final = [ideal |-> <<0, 1>>, virial |-> <<0, 1>>]
  /\ ppc = "cell17"

(* cell 17 dividing by window_size*V instead of 30000*V *)
PressureFullByWindow ==
  /\ ppc = "cell17"
  /\ p_ex' = <<psumFull, FullWindow * V>>
  /\ p_final' = [ideal |-> <<NP * temperature, V>>,
                 virial |-> <<psumFull, FullWindow * V>>]
  /\ ppc' = "cell20"
  /\ UNCHANGED <<psumFull, psumLast>>

(* cell 17: p_ex is the sum of p[i], then p_ex/(30000*V), then             *)
(* p_final=N*temperature/V-p_ex                                            *)
PressureFull ==
  /\ ppc = "cell17"
  /\ p_ex' = <<psumFull, FullDivisor * V>>
  /\ p_final' = [ideal |-> <<NP * temperature, V>>,
                 virial |-> <<psumFull, FullDivisor * V>>]
  /\ ppc' = "cell20"
  /\ UNCHANGED <<psumFull, psumLast>>

(* cell 20: the same over the last 5000 steps, p_ex/(15000*V) *)
PressureLast ==
  /\ ppc = "cell20"
  /\ p_ex' = <<psumLast, LastDivisor * V>>
  /\ p_final' = [ideal |-> <<NP * temperature, V>>,
                 virial |-> <<psumLast, LastDivisor * V>>]
  /\ ppc' = "shown"
  /\ UNCHANGED <<psumFull, psumLast>>

PressNext ==
  \/ PressureFull /\ UNCHANGED <<samplerVars, geomVars, widomVars, propVars>>
  \/ PressureLast /\ UNCHANGED <<samplerVars, geomVars, widomVars, propVars>>

SpecPress == PressInit /\ [][PressNext]_vars

(***************************************************************************)
(* Widom insertion (cell 26) after the sampler has finished.               *)
(***************************************************************************)
(* cell 26: for i in range(5000,10000), the second half of the trajectory *)
WStart == MSteps \div 2

(* cell 26: temp = random.random()*L lies in [0, L); the positions drawn   *)
WidomDraws == { <<5, 5, 5>>, <<4, 6, 5>> }

(* the insertion summand with the multiplier 2 of the all-pairs loop *)
WidomTermHalf(r2) == 2 * (PowM12(r2) - PowM6(r2))

(* cell 26: the summand 4*(math.pow(rjk,-12)-math.pow(rjk,-6)) *)
WidomTerm(r2) == 4 * (PowM12(r2) - PowM6(r2))

(* cell 26: for j in range(27): up_extra[i]+=WidomTerm; stops with the     *)
(* partial sum where math.pow(0.0,-12) raises                              *)
RECURSIVE WidomLoop(_, _, _, _)
WidomLoop(v, cfg, j, acc) ==
  IF j >= NP THEN [ok |-> TRUE, val |-> acc]
  ELSE LET r == cal_r(v[1], v[2], v[3], cfg[j][1], cfg[j][2], cfg[j][3])
       IN IF r.r2 = 0 THEN [ok |-> FALSE, val |-> acc]
          ELSE WidomLoop(v, cfg, j + 1, acc + WidomTerm(r.r2))

WidomInit ==
  /\ SamplerInit /\ GeomIdle /\ PressIdle /\ PropIdle
  /\ wi = WStart
  /\ wtemp = <<0, 0, 0>>
  /\ up_extra = [t \in Steps |-> 0]
  /\ wpc = "loop"

(* cell 26: one iteration of the loop over i *)
WidomInsert ==
  /\ pc = "done"
  /\ wpc = "loop"
  /\ \E v \in WidomDraws :
       LET e == WidomLoop(v, Column(wi), 0, up_extra[wi])
       IN /\ wtemp' = v
          /\ up_extra' = [up_extra EXCEPT ![wi] = e.val]
          /\ IF e.ok
             THEN /\ wi' = wi + 1
                  /\ wpc' = IF wi + 1 < MSteps THEN "loop" ELSE "done"
             ELSE /\ wi' = wi
                  /\ wpc' = "failed"

WidomNext ==
  \/ CopyForward /\ UNCHANGED <<geomVars, pressVars, widomVars, propVars>>
  \/ TrialWrite /\ UNCHANGED <<geomVars, pressVars, widomVars, propVars>>
  \/ Energy /\ UNCHANGED <<geomVars, pressVars, widomVars, propVars>>
  \/ Decide /\ UNCHANGED <<geomVars, pressVars, widomVars, propVars>>
  \/ WidomInsert /\ UNCHANGED <<samplerVars, geomVars, pressVars, propVars>>

SpecWidom == WidomInit /\ [][WidomNext]_vars

(***************************************************************************)
(* The proposal of one step as a pure function of the draws (cell 14,      *)
(* lines 237-247): which (jt, temp1, temp2, temp3) turn A into B.          *)
(***************************************************************************)
(* lines 237-240: all draws (jt, temp1, temp2, temp3), each equally likely *)
AllDraws == Particles \X (DispRange \X DispRange \X DispRange)

(* the number of draws that propose cfgTo from cfgFrom *)
Proposals(cfgFrom, cfgTo) ==
  Cardinality({d \in AllDraws : TrialCfg(cfgFrom, d[1], d[2]) = cfgTo})

TargetCoords == {0, 3, 6, 9}

PropInit ==
  /\ SamplerInit /\ GeomIdle /\ PressIdle /\ WidomIdle
  /\ cfgA = [j \in Particles |-> location[j + 1]]
  /\ pk \in Particles
  /\ pb \in TargetCoords \X TargetCoords \X TargetCoords
  /\ \A j \in Particles : cfgA[j] # pb
  /\ nAB = 0
  /\ nBA = 0
  /\ spc = "pair"

(* B is A with particle pk at pb *)
cfgB == [cfgA EXCEPT ![pk] = pb]

Tally ==
  /\ spc = "pair"
  /\ nAB' = Proposals(cfgA, cfgB)
  /\ nBA' = Proposals(cfgB, cfgA)
  /\ spc' = "tallied"
  /\ UNCHANGED <<cfgA, pk, pb>>

PropNext == Tally /\ UNCHANGED <<samplerVars, geomVars, pressVars, widomVars>>

SpecProp == PropInit /\ [][PropNext]_vars

(***************************************************************************)
(* Properties.                                                             *)
(***************************************************************************)
ColumnNext(c) == [j \in Particles |-> <<x'[j][c], y'[j][c], z'[j][c]>>]

TotalEnergy(cfg) == AllPairs(cfg, NP, 0, 0)

Between == pc \in {"draw", "done"}

(* the last step ended in a reject: the stored column is the previous one  *)
(* although the trial position was a different one                         *)
LastRejected ==
  /\ Between
  /\ i >= 1
  /\ Column(i) = Column(i - 1)
  /\ TrialCfg(Column(i - 1), jt, <<temp1, temp2, temp3>>) # Column(i)

(* the last column the sampler has written to *)
LastWritten == IF pc \in {"trial", "energy", "decide", "failed"} THEN i + 1 ELSE i

PairwiseDistinct(cfg) ==
  \A j \in Particles : \A k \in Particles : j # k => cfg[j] # cfg[k]

C2_EnergyConsistent ==
  \A t \in 0 .. i :
    LET e == TotalEnergy(Column(t))
    IN e.ok /\ up[t] = e.val

(* a rejected step, its energy copied forward *)
C2_Witness == LastRejected /\ up[i] = up[i - 1]

Changed(t) ==
  \/ \E j \in Particles : x'[j][t] # x[j][t] \/ y'[j][t] # y[j][t] \/ z'[j][t] # z[j][t]
  \/ up'[t] # up[t]

(* C3 as claimed: index t of the buffers is mutated only in the transition *)
(* that commits step t.                                                    *)
C3_WriteOnce ==
  [][\A t \in Steps : Changed(t) => (i = t - 1 /\ i' = t)]_vars

(* C3 amended: index t of the buffers is mutated only while the step that  *)
(* produces it is in progress (t = i+1); committed entries (t <= i) and    *)
(* entries further ahead never change.                                     *)
C3_WrittenOnlyInProgress ==
  [][\A t \in Steps :
       Changed(t) => (t = i + 1 /\ pc \in {"draw", "trial", "energy", "decide"})]_vars

(* the run is over, its last step was rejected (the trial value held by    *)
(* the last column was overwritten), an earlier step had moved a particle  *)
C3_Witness ==
  /\ pc = "done"
  /\ LastRejected
  /\ Column(i) # Column(0)

(* C4: after any sequence of steps, also after a run that ended on a       *)
(* coincident pair, every column written so far holds pairwise distinct    *)
(* positions.                                                              *)
C4_NoCoincidence ==
  pc \in {"draw", "done", "failed"} =>
    \A t \in 0 .. LastWritten : PairwiseDistinct(Column(t))

C6_MinimumImage ==
  gpc = "returned" =>
    /\ gpx \in {-1, 0, 1}
    /\ gdx >= 0
    /\ gdx = Min3(abs(gxi - gxj), abs(gxi - gxj + L), abs(gxi - gxj - L))
    /\ gdx = compare(gxj, gxi).dx

(* 4.5 and 0.5 in a box of side 5 are 1.0 apart, not 4.0 *)
C6_Witness ==
  /\ gpc = "returned"
  /\ gxi = 9
  /\ gxj = 1
  /\ gdx = 2

(* C7 as claimed: a tie of |xi-xj| with |xi-xj+L| for the minimum returns  *)
(* shift +1; any other tie for the minimum returns a shifted candidate;    *)
(* a tie of the two shifted candidates returns shift +1.                   *)
C7_TieFavoursShift ==
  gpc = "returned" =>
    LET a == abs(gxi - gxj)
        b == abs(gxi - gxj + L)
        c == abs(gxi - gxj - L)
    IN /\ (a = b /\ b <= c) => gpx = 1
       /\ (a = c /\ c <= b /\ a # b) => gpx # 0
       /\ (b = c) => gpx = 1

(* C7 amended: whenever |xi-xj| is a minimum, tied or not, compare returns *)
(* shift 0 and |xi-xj|; shift +1 is returned only when |xi-xj-L| is        *)
(* strictly the smallest, shift -1 only when |xi-xj+L| is.                 *)
C7_TieFavoursUnshifted ==
  gpc = "returned" =>
    LET a == abs(gxi - gxj)
        b == abs(gxi - gxj + L)
        c == abs(gxi - gxj - L)
    IN /\ (a <= b /\ a <= c) => (gpx = 0 /\ gdx = a)
       /\ gpx = 1 => (c < a /\ c < b /\ gdx = c)
       /\ gpx = -1 => (b < a /\ b < c /\ gdx = b)

(* an exact half-box separation: 0 and 2.5 *)
C7_Witness ==
  /\ gpc = "returned"
  /\ gxi = 0
  /\ 2 * gxj = L
  /\ gpx = 0
  /\ 2 * gdx = L

(* C8: for valid A and B that differ in one particle, as many draws        *)
(* (jt, temp1, temp2, temp3) propose B from A as propose A from B.         *)
C8_SymmetricProposal ==
  spc = "tallied" => (nAB = nBA /\ nAB > 0)

(* a target on a face of the box, reached by two displacements per axis *)
C8_Witness ==
  /\ spc = "tallied"
  /\ pb[1] = 0
  /\ nAB = 8
  /\ nBA = 8

(* C9 as claimed: the virial term is the window sum over window_size*V. *)
C9_DivisorIsWindow ==
  /\ ppc = "cell20" => p_ex[1] * (FullWindow * V) = psumFull * p_ex[2]
  /\ ppc = "shown" => p_ex[1] * ((FullWindow - LastStart) * V) = psumLast * p_ex[2]

(* C9 amended: the estimate is N*tau/V minus the window sum over           *)
(* 3*window_size*V, for the full trajectory and for the last 5000 steps.   *)
C9_DivisorIsThreeWindows ==
  /\ ppc = "cell20" =>
       /\ p_ex[1] * (3 * FullWindow * V) = psumFull * p_ex[2]
       /\ p_final = [ideal |-> <<NP * temperature, V>>, virial |-> p_ex]
  /\ ppc = "shown" =>
       /\ p_ex[1] * (3 * (FullWindow - LastStart) * V) = psumLast * p_ex[2]
       /\ p_final = [ideal |-> <<NP * temperature, V>>, virial |-> p_ex]

(* both estimates computed from window sums that are not zero *)
C9_Witness ==
  /\ ppc = "shown"
  /\ psumFull # 0
  /\ psumLast # 0
  /\ p_ex[2] = LastDivisor * V

(* C10: the insertion energy of the virtual particle equals the all-pairs  *)
(* energy of the configuration with the virtual particle added minus the   *)
(* all-pairs energy of the configuration.                                  *)
C10_WidomConsistent ==
  (wpc \in {"loop", "done"} /\ wi > WStart) =>
    LET cfg == Column(wi - 1)
        ext == [j \in 0 .. NP |-> IF j < NP THEN cfg[j] ELSE wtemp]
    IN up_extra[wi - 1] = AllPairs(ext, NP + 1, 0, 0).val - TotalEnergy(cfg).val

(* an insertion into a configuration that is no longer the lattice *)
C10_Witness ==
  /\ wpc = "done"
  /\ up_extra[MSteps - 1] # 0
  /\ Column(MSteps - 1) # Column(0)

====
